---------------------------- MODULE Spec2Model ----------------------------
(***************************************************************************)
(* Sliding-window rate limiter (src/app/utils/rate_limiter.py) and its use *)
(* by the request middleware (src/main.py).                                *)
(*                                                                         *)
(* A RateLimiter object is the record                                      *)
(*   [max_requests, time_window, request_history]                          *)
(* where request_history is a function from the tracked client ids to      *)
(* their deque of timestamps (a sequence, oldest first).  Every method is  *)
(* an operator from the object (and the value time.time() returned) to the *)
(* object afterwards and the value returned.                               *)
(***************************************************************************)
EXTENDS Integers, Sequences, FiniteSets, TLC

VARIABLES
    now,            \* the value time.time() returned last (seconds)
    rl,             \* a RateLimiter object
    limiters,       \* AdvancedRateLimiter.limiters: tier name -> RateLimiter
    client_tiers,   \* AdvancedRateLimiter.client_tiers: client id -> tier name
    last,           \* the call that returned last, with what it returned
    reset_before,   \* the reset_client call that returned just before it, if one did
    admitted,       \* history: per client, the times of its latest admissions by rl
    calls,          \* history: the allow_request calls of one client, in order
    bare,           \* history: a RateLimiter given the allow_request calls of rl only
    promised,       \* history: per client, the reset_time reported to it while limited
    threads,        \* per thread inside a method of rl: its line and its locals
    dispatch        \* per request inside the middleware: its line and what befell it

histories == <<admitted, calls, bare, promised>>
vars == <<now, rl, limiters, client_tiers, last, reset_before, admitted, calls,
          bare, promised, threads, dispatch>>

---------------------------------------------------------------------------
(* Bounds of the model *)

MaxTime == 3            \* the clock is read up to this value
MaxRequests == 2        \* limiters are constructed with max_requests in 1..MaxRequests
MaxWindow == 2          \* ... and time_window in 1..MaxWindow

Clients == {"c1", "c2"}

Min(a, b) == IF a <= b THEN a ELSE b
Max(a, b) == IF a >= b THEN a ELSE b

\* time.time(): a clock that does not move backward
ClockReads == now .. MaxTime

---------------------------------------------------------------------------
(* class RateLimiter *)

\* RateLimiter.__init__
RateLimiter(max_requests, time_window) ==
    [max_requests |-> max_requests,
     time_window |-> time_window,
     request_history |-> <<>>]

\* self.request_history[client_id] of a defaultdict(deque): the stored deque,
\* or the empty deque that the lookup inserts
Lookup(self, client_id) ==
    IF client_id \in DOMAIN self.request_history
    THEN self.request_history[client_id]
    ELSE <<>>

\* the object with client_id's deque replaced by client_requests
Store(self, client_id, client_requests) ==
    [self EXCEPT !.request_history = (client_id :> client_requests) @@ @]

\* while client_requests and client_requests[0] <= current_time - time_window:
\*     client_requests.popleft()
RECURSIVE PopOld(_, _, _)
PopOld(client_requests, current_time, time_window) ==
    IF client_requests # <<>> /\ Head(client_requests) <= current_time - time_window
    THEN PopOld(Tail(client_requests), current_time, time_window)
    ELSE client_requests

\* (mutant) an if where the code has a while: one old request is dropped
RemoveOldRequests_pops_once(self, client_id, current_time) ==
    LET client_requests == Lookup(self, client_id)
    IN  IF client_requests # <<>>
           /\ Head(client_requests) <= current_time - self.time_window
        THEN Tail(client_requests)
        ELSE client_requests

\* (mutant) a fixed window: once the oldest request is old, all are dropped
RemoveOldRequests_fixed_window(self, client_id, current_time) ==
    LET client_requests == Lookup(self, client_id)
    IN  IF client_requests # <<>>
           /\ Head(client_requests) <= current_time - self.time_window
        THEN <<>>
        ELSE client_requests

RemoveOldRequests(self, client_id, current_time) ==
    PopOld(Lookup(self, client_id), current_time, self.time_window)

\* (mutant) the limit test is > where the code has >=
allow_request_above_limit(self, client_id, current_time) ==
    LET client_requests == RemoveOldRequests(self, client_id, current_time)
    IN  IF Len(client_requests) > self.max_requests
        THEN [self |-> Store(self, client_id, client_requests), ret |-> FALSE]
        ELSE [self |-> Store(self, client_id, Append(client_requests, current_time)),
              ret |-> TRUE]

\* (mutant) a rejected request is recorded too
allow_request_records_rejected(self, client_id, current_time) ==
    LET client_requests == RemoveOldRequests(self, client_id, current_time)
    IN  [self |-> Store(self, client_id, Append(client_requests, current_time)),
         ret |-> Len(client_requests) < self.max_requests]

\* RateLimiter.allow_request
allow_request(self, client_id, current_time) ==
    LET client_requests == RemoveOldRequests(self, client_id, current_time)
    IN  IF Len(client_requests) >= self.max_requests
        THEN [self |-> Store(self, client_id, client_requests), ret |-> FALSE]
        ELSE [self |-> Store(self, client_id, Append(client_requests, current_time)),
              ret |-> TRUE]

\* (mutant) the status of a client that is not tracked is read without
\* giving it an entry
get_client_status_leaves_untracked(self, client_id, current_time) ==
    LET client_requests == RemoveOldRequests(self, client_id, current_time)
        requests_used == Len(client_requests)
    IN  [self |-> IF client_id \in DOMAIN self.request_history
                  THEN Store(self, client_id, client_requests)
                  ELSE self,
         ret |-> [client_id |-> client_id,
                  requests_used |-> requests_used,
                  requests_remaining |-> Max(0, self.max_requests - requests_used),
                  max_requests |-> self.max_requests,
                  time_window |-> self.time_window,
                  reset_time |-> IF client_requests # <<>>
                                 THEN {Head(client_requests) + self.time_window}
                                 ELSE {},
                  is_limited |-> requests_used >= self.max_requests]]

\* (mutant) a client is reported limited only above its limit
get_client_status_limited_above(self, client_id, current_time) ==
    LET client_requests == RemoveOldRequests(self, client_id, current_time)
        requests_used == Len(client_requests)
    IN  [self |-> Store(self, client_id, client_requests),
         ret |-> [client_id |-> client_id,
                  requests_used |-> requests_used,
                  requests_remaining |-> Max(0, self.max_requests - requests_used),
                  max_requests |-> self.max_requests,
                  time_window |-> self.time_window,
                  reset_time |-> IF client_requests # <<>>
                                 THEN {Head(client_requests) + self.time_window}
                                 ELSE {},
                  is_limited |-> requests_used > self.max_requests]]

\* (mutant) the status query is counted as a request
get_client_status_counts_query(self, client_id, current_time) ==
    LET client_requests == RemoveOldRequests(self, client_id, current_time)
        requests_used == Len(client_requests)
    IN  [self |-> Store(self, client_id, Append(client_requests, current_time)),
         ret |-> [client_id |-> client_id,
                  requests_used |-> requests_used,
                  requests_remaining |-> Max(0, self.max_requests - requests_used),
                  max_requests |-> self.max_requests,
                  time_window |-> self.time_window,
                  reset_time |-> IF client_requests # <<>>
                                 THEN {Head(client_requests) + self.time_window}
                                 ELSE {},
                  is_limited |-> requests_used >= self.max_requests]]

\* RateLimiter.get_client_status; reset_time None is {}, a value t is {t}
get_client_status(self, client_id, current_time) ==
    LET client_requests == RemoveOldRequests(self, client_id, current_time)
        requests_used == Len(client_requests)
    IN  [self |-> Store(self, client_id, client_requests),
         ret |-> [client_id |-> client_id,
                  requests_used |-> requests_used,
                  requests_remaining |-> Max(0, self.max_requests - requests_used),
                  max_requests |-> self.max_requests,
                  time_window |-> self.time_window,
                  reset_time |-> IF client_requests # <<>>
                                 THEN {Head(client_requests) + self.time_window}
                                 ELSE {},
                  is_limited |-> requests_used >= self.max_requests]]

\* RateLimiter.get_all_clients_status: get_client_status of every key
get_all_clients_status(self, current_time) ==
    [self |-> [self EXCEPT !.request_history =
                  [c \in DOMAIN @ |-> RemoveOldRequests(self, c, current_time)]],
     ret |-> [c \in DOMAIN self.request_history |->
                  get_client_status(self, c, current_time).ret]]

\* (mutant) reports the client found and keeps its history
reset_client_keeps_history(self, client_id) ==
    [self |-> self, ret |-> client_id \in DOMAIN self.request_history]

\* RateLimiter.reset_client
reset_client(self, client_id) ==
    IF client_id \in DOMAIN self.request_history
    THEN [self |-> [self EXCEPT !.request_history =
                       [c \in DOMAIN @ \ {client_id} |-> @[c]]],
          ret |-> TRUE]
    ELSE [self |-> self, ret |-> FALSE]

\* (mutant) a client is removed as soon as its oldest request is old
cleanup_old_entries_drops_clients(self, current_time) ==
    LET requests(c) == RemoveOldRequests(self, c, current_time)
        clients_to_remove == {c \in DOMAIN self.request_history :
                                 requests(c) # self.request_history[c]
                                 \/ requests(c) = <<>>}
    IN  [self EXCEPT !.request_history =
            [c \in DOMAIN @ \ clients_to_remove |-> requests(c)]]

\* (mutant) old requests are removed, the emptied clients are kept
cleanup_old_entries_keeps_clients(self, current_time) ==
    [self EXCEPT !.request_history =
        [c \in DOMAIN @ |-> RemoveOldRequests(self, c, current_time)]]

\* RateLimiter.cleanup_old_entries
cleanup_old_entries(self, current_time) ==
    LET requests(c) == RemoveOldRequests(self, c, current_time)
        clients_to_remove == {c \in DOMAIN self.request_history : requests(c) = <<>>}
    IN  [self EXCEPT !.request_history =
            [c \in DOMAIN @ \ clients_to_remove |-> requests(c)]]

\* sum(len(requests) for requests in self.request_history.values())
RECURSIVE SumLen(_, _)
SumLen(history, keys) ==
    IF keys = {} THEN 0
    ELSE LET c == CHOOSE k \in keys : TRUE
         IN  Len(history[c]) + SumLen(history, keys \ {c})

\* [r for r in requests if r > current_time - self.time_window]
RecentRequests(requests, current_time, time_window) ==
    SelectSeq(requests, LAMBDA r : r > current_time - time_window)

\* (mutant) the timestamps are counted as if the deques had been trimmed
get_stats_counts_recent(self, current_time) ==
    LET recent(c) == RecentRequests(self.request_history[c], current_time,
                                    self.time_window)
        active == {c \in DOMAIN self.request_history : recent(c) # <<>>}
    IN  [total_clients |-> Cardinality(active),
         active_clients |-> Cardinality(active),
         limited_clients |->
             Cardinality({c \in active : Len(recent(c)) >= self.max_requests}),
         total_requests_tracked |->
             SumLen([c \in DOMAIN self.request_history |-> recent(c)],
                    DOMAIN self.request_history),
         max_requests_per_window |-> self.max_requests,
         time_window_seconds |-> self.time_window]

\* RateLimiter.get_stats
get_stats(self, current_time) ==
    LET recent(c) == RecentRequests(self.request_history[c], current_time,
                                    self.time_window)
        active == {c \in DOMAIN self.request_history : recent(c) # <<>>}
    IN  [total_clients |-> Cardinality(DOMAIN self.request_history),
         active_clients |-> Cardinality(active),
         limited_clients |->
             Cardinality({c \in active : Len(recent(c)) >= self.max_requests}),
         total_requests_tracked |->
             SumLen(self.request_history, DOMAIN self.request_history),
         max_requests_per_window |-> self.max_requests,
         time_window_seconds |-> self.time_window]

---------------------------------------------------------------------------
(* class AdvancedRateLimiter: the object is [limiters, client_tiers] *)

DefaultMaxRequests == 60
DefaultTimeWindow == 60

\* AdvancedRateLimiter.__init__
AdvancedRateLimiter == [limiters |-> <<>>, client_tiers |-> <<>>]

\* (mutant) a tier registered again takes the new policy, its limiter stays
add_tier_keeps_history(self, tier_name, max_requests, time_window) ==
    IF tier_name \in DOMAIN self.limiters
    THEN [self EXCEPT !.limiters[tier_name] =
             [@ EXCEPT !.max_requests = max_requests, !.time_window = time_window]]
    ELSE [self EXCEPT !.limiters =
             (tier_name :> RateLimiter(max_requests, time_window)) @@ @]

\* AdvancedRateLimiter.add_tier
add_tier(self, tier_name, max_requests, time_window) ==
    [self EXCEPT !.limiters =
        (tier_name :> RateLimiter(max_requests, time_window)) @@ @]

\* (mutant) the client's deque in its previous tier is discarded
set_client_tier_forgets_history(self, client_id, tier_name) ==
    LET previous == IF client_id \in DOMAIN self.client_tiers
                    THEN self.client_tiers[client_id]
                    ELSE "default"
    IN  IF tier_name \notin DOMAIN self.limiters
        THEN [self |-> self, raised |-> "ValueError"]
        ELSE IF previous \in DOMAIN self.limiters /\ previous # tier_name
        THEN [self |->
                 [self EXCEPT
                     !.client_tiers = (client_id :> tier_name) @@ @,
                     !.limiters[previous] = reset_client(@, client_id).self],
              raised |-> ""]
        ELSE [self |-> [self EXCEPT !.client_tiers = (client_id :> tier_name) @@ @],
              raised |-> ""]

\* (mutant) the client's deque moves from its previous tier to the new one
set_client_tier_moves_history(self, client_id, tier_name) ==
    LET previous == IF client_id \in DOMAIN self.client_tiers
                    THEN self.client_tiers[client_id]
                    ELSE "default"
    IN  IF tier_name \notin DOMAIN self.limiters
        THEN [self |-> self, raised |-> "ValueError"]
        ELSE IF previous \in DOMAIN self.limiters /\ previous # tier_name
                /\ client_id \in DOMAIN self.limiters[previous].request_history
        THEN [self |->
                 [self EXCEPT
                     !.client_tiers = (client_id :> tier_name) @@ @,
                     !.limiters[tier_name] =
                         Store(@, client_id, Lookup(self.limiters[previous], client_id)),
                     !.limiters[previous] = reset_client(@, client_id).self],
              raised |-> ""]
        ELSE [self |-> [self EXCEPT !.client_tiers = (client_id :> tier_name) @@ @],
              raised |-> ""]

\* (mutant) the assignment is recorded before the tier is looked up
set_client_tier_assigns_first(self, client_id, tier_name) ==
    [self |-> [self EXCEPT !.client_tiers = (client_id :> tier_name) @@ @],
     raised |-> IF tier_name \notin DOMAIN self.limiters THEN "ValueError" ELSE ""]

\* AdvancedRateLimiter.set_client_tier
set_client_tier(self, client_id, tier_name) ==
    IF tier_name \notin DOMAIN self.limiters
    THEN [self |-> self, raised |-> "ValueError"]
    ELSE [self |-> [self EXCEPT !.client_tiers = (client_id :> tier_name) @@ @],
          raised |-> ""]

\* self.client_tiers.get(client_id, 'default')
ClientTier(self, client_id) ==
    IF client_id \in DOMAIN self.client_tiers
    THEN self.client_tiers[client_id]
    ELSE "default"

\* (mutant) the default tier is not created when it is missing
WithDefaultTier_never_creates(self, tier_name) ==
    self

\* (mutant) the default tier is created anew at every call of an unassigned client
WithDefaultTier_always_new(self, tier_name) ==
    IF tier_name = "default"
    THEN add_tier(self, "default", DefaultMaxRequests, DefaultTimeWindow)
    ELSE self

\* if tier_name not in self.limiters: self.add_tier('default', 60, 60)
WithDefaultTier(self, tier_name) ==
    IF tier_name \notin DOMAIN self.limiters
    THEN add_tier(self, "default", DefaultMaxRequests, DefaultTimeWindow)
    ELSE self

\* (mutant) every client is routed to the default tier
Advanced_allow_request_ignores_tier(self, client_id, current_time) ==
    LET with == WithDefaultTier(self, "default")
        r == allow_request(with.limiters["default"], client_id, current_time)
    IN  [self |-> [with EXCEPT !.limiters["default"] = r.self],
         tier |-> ClientTier(self, client_id), ret |-> r.ret, raised |-> ""]

\* AdvancedRateLimiter.allow_request; self.limiters[tier_name] of a name
\* that is no key raises KeyError
Advanced_allow_request(self, client_id, current_time) ==
    LET tier_name == ClientTier(self, client_id)
        with == WithDefaultTier(self, tier_name)
    IN  IF tier_name \notin DOMAIN with.limiters
        THEN [self |-> with, tier |-> tier_name, ret |-> FALSE, raised |-> "KeyError"]
        ELSE LET r == allow_request(with.limiters[tier_name], client_id, current_time)
             IN  [self |-> [with EXCEPT !.limiters[tier_name] = r.self],
                  tier |-> tier_name, ret |-> r.ret, raised |-> ""]

\* AdvancedRateLimiter.get_client_status; status['tier'] = tier_name
Advanced_get_client_status(self, client_id, current_time) ==
    LET tier_name == ClientTier(self, client_id)
        with == WithDefaultTier(self, tier_name)
    IN  IF tier_name \notin DOMAIN with.limiters
        THEN [self |-> with, tier |-> tier_name, ret |-> <<>>, raised |-> "KeyError"]
        ELSE LET r == get_client_status(with.limiters[tier_name], client_id,
                                        current_time)
             IN  [self |-> [with EXCEPT !.limiters[tier_name] = r.self],
                  tier |-> tier_name,
                  ret |-> <<[k \in DOMAIN r.ret \cup {"tier"} |->
                               IF k = "tier" THEN tier_name ELSE r.ret[k]]>>,
                  raised |-> ""]

---------------------------------------------------------------------------
(* The record of a call: what was called, for whom, and what came back.    *)
(* ret is the boolean returned (allow_request, reset_client), status the   *)
(* dictionary of get_client_status (<<>> when there is none), all and      *)
(* stats those of get_all_clients_status and get_stats, raised the name of *)
(* the exception that ended the call ("" when it returned).  Two fields    *)
(* describe the state the call found: found is the number of timestamps    *)
(* inside the window that reset_client discarded, or the number of         *)
(* timestamps stored when cleanup_old_entries began, or the number of       *)
(* clients routed to the tier that were at their limit in the limiter that *)
(* add_tier replaced, or the number of timestamps inside the window that   *)
(* the client already had in the tier that set_client_tier moved it to     *)
(* from another tier; again says that the call before it was the same call *)
(* for the same client at the same clock value.                            *)

Call(op, client_id) ==
    [op |-> op, client |-> client_id, tier |-> "", ret |-> FALSE, found |-> 0,
     again |-> FALSE, status |-> <<>>, all |-> <<>>, stats |-> <<>>, raised |-> ""]

NoCall == Call("none", "")

\* What a client was told while limited: the reset_time of the statuses that
\* reported is_limited since its last admission (none, {}, if none did), and
\* whether a request of its was rejected since the first of them.
NoPromise == [reset_time |-> {}, rejected |-> FALSE]

Returned(call) ==
    /\ last' = call
    /\ reset_before' = IF last.op = "reset_client" THEN last ELSE NoCall

\* A thread is outside the methods (line 0), about to execute one of the
\* lines 48, 49, 52, 53, 56, 61 of allow_request, or one of the lines 131,
\* 134, 136, 137, 140, 145 of cleanup_old_entries.  client_id and
\* current_time are its locals; its local client_requests (requests) is a
\* reference to the deque stored under client_id, and once that key is
\* deleted from the map the reference is to a deque no longer in it, whose
\* contents detached holds (<<>> while the deque is in the map).  dict_size
\* and iterated are the dictionary iterator of line 134: the size of the map
\* when it was made (-1 before) and the keys it has yielded;
\* clients_to_remove is the local list of that name.
Threads == {"t1", "t2"}
Idle == [line |-> 0, client_id |-> "", current_time |-> 0, detached |-> <<>>,
         dict_size |-> -1, iterated |-> {}, clients_to_remove |-> <<>>]

\* A request is outside RateLimitMiddleware.dispatch (line 0) or about to
\* execute one of its lines 64, 70, 71 (src/main.py).  client_ip is its
\* local; allowed is what self.rate_limiter.allow_request(client_ip)
\* returned for it (<<>> before the call), handled says that call_next was
\* invoked for it, outcome is how dispatch ended for it ("" before).
Requests == {"r1", "r2"}
NoRequest == [line |-> 0, client_ip |-> "", allowed |-> <<>>, handled |-> FALSE,
              outcome |-> ""]

---------------------------------------------------------------------------
(* Operations on the RateLimiter rl, each reading the clock once *)

AllowRequestAt(c, t) ==
    LET r == allow_request(rl, c, t)
    IN  /\ now' = t
        /\ rl' = r.self
        /\ Returned([Call("allow_request", c) EXCEPT !.ret = r.ret])
        /\ UNCHANGED <<limiters, client_tiers>>

GetClientStatusAt(c, t) ==
    LET r == get_client_status(rl, c, t)
    IN  /\ now' = t
        /\ rl' = r.self
        /\ Returned([Call("get_client_status", c) EXCEPT
                        !.status = <<r.ret>>,
                        !.again = (last.op = "get_client_status"
                                   /\ last.client = c /\ now = t)])
        /\ UNCHANGED <<limiters, client_tiers>>

GetAllClientsStatusAt(t) ==
    LET r == get_all_clients_status(rl, t)
    IN  /\ now' = t
        /\ rl' = r.self
        /\ Returned([Call("get_all_clients_status", "") EXCEPT !.all = r.ret])
        /\ UNCHANGED <<limiters, client_tiers>>

ResetClientOf(c) ==
    LET r == reset_client(rl, c)
    IN  /\ rl' = r.self
        /\ Returned([Call("reset_client", c) EXCEPT
                        !.ret = r.ret,
                        !.found = Len(RecentRequests(Lookup(rl, c), now,
                                                     rl.time_window))])
        /\ UNCHANGED <<now, limiters, client_tiers>>

CleanupOldEntriesAt(t) ==
    /\ now' = t
    /\ rl' = cleanup_old_entries(rl, t)
    /\ Returned([Call("cleanup_old_entries", "") EXCEPT
                    !.found = SumLen(rl.request_history, DOMAIN rl.request_history)])
    /\ UNCHANGED <<limiters, client_tiers>>

GetStatsAt(t) ==
    /\ now' = t
    /\ Returned([Call("get_stats", "") EXCEPT !.stats = <<get_stats(rl, t)>>])
    /\ UNCHANGED <<rl, limiters, client_tiers>>

AllowRequest ==
    \E c \in Clients, t \in ClockReads : AllowRequestAt(c, t) /\ UNCHANGED <<histories, dispatch, threads>>
GetClientStatus ==
    \E c \in Clients, t \in ClockReads : GetClientStatusAt(c, t) /\ UNCHANGED <<histories, dispatch, threads>>
GetAllClientsStatus ==
    \E t \in ClockReads : GetAllClientsStatusAt(t) /\ UNCHANGED <<histories, dispatch, threads>>
CleanupOldEntries ==
    \E t \in ClockReads : CleanupOldEntriesAt(t) /\ UNCHANGED <<histories, dispatch, threads>>
GetStats ==
    \E t \in ClockReads : GetStatsAt(t) /\ UNCHANGED <<histories, dispatch, threads>>
ResetClient ==
    \E c \in Clients : ResetClientOf(c) /\ UNCHANGED <<histories, dispatch, threads>>

\* The admission history keeps, per client, the times of the latest
\* max_requests + 1 admissions: more than max_requests admissions in one
\* window are max_requests + 1 consecutive ones, the last of which is the
\* latest admission at the moment it is made.
Log(history, t, max_requests) ==
    LET all == Append(history, t)
    IN  IF Len(all) > max_requests + 1 THEN Tail(all) ELSE all

\* allow_request with the admission history kept
AllowRequestLogged ==
    \E c \in Clients, t \in ClockReads :
        /\ AllowRequestAt(c, t)
        /\ admitted' = IF last'.ret
                       THEN [admitted EXCEPT ![c] = Log(@, t, rl.max_requests)]
                       ELSE admitted
        /\ UNCHANGED <<calls, bare, promised, threads, dispatch>>

---------------------------------------------------------------------------
(* Spec: one RateLimiter, its methods called one after the other *)

Init ==
    /\ now = 0
    /\ rl \in {RateLimiter(m, w) : m \in 1..MaxRequests, w \in 1..MaxWindow}
    /\ limiters = <<>>
    /\ client_tiers = <<>>
    /\ last = NoCall
    /\ reset_before = NoCall
    /\ admitted = [c \in Clients |-> <<>>]
    /\ calls = <<>>
    /\ bare = rl
    /\ promised = [c \in Clients |-> NoPromise]
    /\ threads = [th \in Threads |-> Idle]
    /\ dispatch = [r \in Requests |-> NoRequest]

Next ==
    \/ AllowRequest
    \/ GetClientStatus
    \/ GetAllClientsStatus
    \/ CleanupOldEntries
    \/ GetStats
    \/ ResetClient

Spec == Init /\ [][Next]_vars

\* SpecLifecycle: the same, for limiters of max_requests 0 as well, which
\* turn away every request
InitLifecycle ==
    /\ now = 0
    /\ rl \in {RateLimiter(m, w) : m \in 0..MaxRequests, w \in 1..MaxWindow}
    /\ limiters = <<>>
    /\ client_tiers = <<>>
    /\ last = NoCall
    /\ reset_before = NoCall
    /\ admitted = [c \in Clients |-> <<>>]
    /\ calls = <<>>
    /\ bare = rl
    /\ promised = [c \in Clients |-> NoPromise]
    /\ threads = [th \in Threads |-> Idle]
    /\ dispatch = [r \in Requests |-> NoRequest]

SpecLifecycle == InitLifecycle /\ [][Next]_vars

\* SpecAdmit: allow_request with the admission history kept, and the calls
\* that trim the deques between them
NextAdmit ==
    \/ AllowRequestLogged
    \/ GetClientStatus
    \/ CleanupOldEntries

SpecAdmit == Init /\ [][NextAdmit]_vars

---------------------------------------------------------------------------
(* SpecThreads: the threads of a server call rl.allow_request at the same  *)
(* time.  The method holds no lock, so the interpreter may switch threads  *)
(* between any two of its statements: each step below is one statement of  *)
(* one thread.  All calls are for the client c1.                           *)

Goto(th, line) == threads' = [threads EXCEPT ![th].line = line]

\* the deque that the thread's local client_requests refers to
Referred(th) ==
    IF threads[th].detached # <<>>
    THEN threads[th].detached[1]
    ELSE Lookup(rl, threads[th].client_id)

\* that deque becomes client_requests and the thread goes to a line: the
\* map changes when the deque is in it, the thread's own copy otherwise
Mutates(th, client_requests, line) ==
    IF threads[th].detached # <<>>
    THEN /\ threads' = [threads EXCEPT ![th].detached = <<client_requests>>,
                                       ![th].line = line]
         /\ UNCHANGED rl
    ELSE /\ rl' = Store(rl, threads[th].client_id, client_requests)
         /\ Goto(th, line)

\* a thread enters allow_request(client_id)
ThreadCall(th, c) ==
    /\ threads[th].line = 0
    /\ threads' = [threads EXCEPT ![th] = [Idle EXCEPT !.line = 48, !.client_id = c]]
    /\ UNCHANGED <<now, rl, limiters, client_tiers, last, reset_before, histories, dispatch>>

\* current_time = time.time()
ThreadLine48(th, t) ==
    /\ threads[th].line = 48
    /\ now' = t
    /\ threads' = [threads EXCEPT ![th].line = 49, ![th].current_time = t]
    /\ UNCHANGED <<rl, limiters, client_tiers, last, reset_before, histories, dispatch>>

\* client_requests = self.request_history[client_id]
ThreadLine49(th) ==
    /\ threads[th].line = 49
    /\ rl' = Store(rl, threads[th].client_id, Lookup(rl, threads[th].client_id))
    /\ Goto(th, 52)
    /\ UNCHANGED <<now, limiters, client_tiers, last, reset_before, histories, dispatch>>

\* while client_requests and client_requests[0] <= current_time - self.time_window:
ThreadLine52(th) ==
    /\ threads[th].line = 52
    /\ LET client_requests == Referred(th)
       IN  IF /\ client_requests # <<>>
              /\ Head(client_requests) <= threads[th].current_time - rl.time_window
           THEN Goto(th, 53)
           ELSE Goto(th, 56)
    /\ UNCHANGED <<now, rl, limiters, client_tiers, last, reset_before, histories, dispatch>>

\* client_requests.popleft(); IndexError when another thread emptied the deque
ThreadLine53(th) ==
    /\ threads[th].line = 53
    /\ LET c == threads[th].client_id
           client_requests == Referred(th)
       IN  IF client_requests # <<>>
           THEN /\ Mutates(th, Tail(client_requests), 52)
                /\ UNCHANGED <<last, reset_before>>
           ELSE /\ threads' = [threads EXCEPT ![th] = Idle]
                /\ Returned([Call("allow_request", c) EXCEPT !.raised = "IndexError"])
                /\ UNCHANGED rl
    /\ UNCHANGED <<now, limiters, client_tiers, histories, dispatch>>

\* if len(client_requests) >= self.max_requests: return False
ThreadLine56(th) ==
    /\ threads[th].line = 56
    /\ LET c == threads[th].client_id
       IN  IF Len(Referred(th)) >= rl.max_requests
           THEN /\ threads' = [threads EXCEPT ![th] = Idle]
                /\ Returned(Call("allow_request", c))
           ELSE /\ Goto(th, 61)
                /\ UNCHANGED <<last, reset_before>>
    /\ UNCHANGED <<now, rl, limiters, client_tiers, histories, dispatch>>

\* client_requests.append(current_time); return True
ThreadLine61(th) ==
    /\ threads[th].line = 61
    /\ LET c == threads[th].client_id
           t == threads[th].current_time
       IN  /\ rl' = IF threads[th].detached # <<>> THEN rl
                     ELSE Store(rl, c, Append(Lookup(rl, c), t))
           /\ admitted' = [admitted EXCEPT ![c] = Log(@, t, rl.max_requests)]
           /\ Returned([Call("allow_request", c) EXCEPT !.ret = TRUE])
    /\ threads' = [threads EXCEPT ![th] = Idle]
    /\ UNCHANGED <<now, limiters, client_tiers, calls, bare, promised, dispatch>>

ThreadEnters == \E th \in Threads : ThreadCall(th, "c1")
ThreadReadsClock == \E th \in Threads, t \in ClockReads : ThreadLine48(th, t)
ThreadGetsDeque == \E th \in Threads : ThreadLine49(th)
ThreadTestsOldest == \E th \in Threads : ThreadLine52(th)
ThreadPopsOldest == \E th \in Threads : ThreadLine53(th)
ThreadTestsLimit == \E th \in Threads : ThreadLine56(th)
ThreadAppends == \E th \in Threads : ThreadLine61(th)

NextThreads ==
    \/ ThreadEnters
    \/ ThreadReadsClock
    \/ ThreadGetsDeque
    \/ ThreadTestsOldest
    \/ ThreadPopsOldest
    \/ ThreadTestsLimit
    \/ ThreadAppends

SpecThreads == Init /\ [][NextThreads]_vars

---------------------------------------------------------------------------
(* SpecRace: thread t1 calls rl.allow_request for one client after the     *)
(* other while thread t2 calls rl.cleanup_old_entries, one statement per   *)
(* step; neither method holds a lock.  The dictionary iterator of line 134 *)
(* is made when the loop is entered and raises RuntimeError when the map   *)
(* has another size at a later step; it yields the keys in the order of    *)
(* their insertion, which the map of the model does not keep: any order.   *)

\* a thread enters cleanup_old_entries()
SweepCall(th) ==
    /\ threads[th].line = 0
    /\ threads' = [threads EXCEPT ![th] = [Idle EXCEPT !.line = 131]]
    /\ UNCHANGED <<now, rl, limiters, client_tiers, last, reset_before, histories, dispatch>>

\* current_time = time.time(); clients_to_remove = []
ThreadLine131(th, t) ==
    /\ threads[th].line = 131
    /\ now' = t
    /\ threads' = [threads EXCEPT ![th].line = 134, ![th].current_time = t]
    /\ UNCHANGED <<rl, limiters, client_tiers, last, reset_before, histories, dispatch>>

\* for client_id, requests in self.request_history.items():
ThreadLine134(th) ==
    /\ threads[th].line = 134
    /\ LET size == Cardinality(DOMAIN rl.request_history)
           left == DOMAIN rl.request_history \ threads[th].iterated
       IN  IF threads[th].dict_size \notin {-1, size}
           THEN /\ threads' = [threads EXCEPT ![th] = Idle]
                /\ Returned([Call("cleanup_old_entries", "") EXCEPT
                                !.raised = "RuntimeError"])
           ELSE /\ IF left = {}
                   THEN Goto(th, 145)
                   ELSE \E c \in left :
                           threads' = [threads EXCEPT
                                          ![th].line = 136,
                                          ![th].client_id = c,
                                          ![th].dict_size = size,
                                          ![th].iterated = @ \cup {c}]
                /\ UNCHANGED <<last, reset_before>>
    /\ UNCHANGED <<now, rl, limiters, client_tiers, histories, dispatch>>

\* while requests and requests[0] <= current_time - self.time_window:
ThreadLine136(th) ==
    /\ threads[th].line = 136
    /\ LET requests == Referred(th)
       IN  IF /\ requests # <<>>
              /\ Head(requests) <= threads[th].current_time - rl.time_window
           THEN Goto(th, 137)
           ELSE Goto(th, 140)
    /\ UNCHANGED <<now, rl, limiters, client_tiers, last, reset_before, histories, dispatch>>

\* requests.popleft(); IndexError when another thread emptied the deque
ThreadLine137(th) ==
    /\ threads[th].line = 137
    /\ LET requests == Referred(th)
       IN  IF requests # <<>>
           THEN /\ Mutates(th, Tail(requests), 136)
                /\ UNCHANGED <<last, reset_before>>
           ELSE /\ threads' = [threads EXCEPT ![th] = Idle]
                /\ Returned([Call("cleanup_old_entries", "") EXCEPT
                                !.raised = "IndexError"])
                /\ UNCHANGED rl
    /\ UNCHANGED <<now, limiters, client_tiers, histories, dispatch>>

\* if not requests: clients_to_remove.append(client_id)
ThreadLine140(th) ==
    /\ threads[th].line = 140
    /\ threads' = [threads EXCEPT
                      ![th].line = 134,
                      ![th].clients_to_remove =
                          IF Referred(th) = <<>>
                          THEN Append(@, threads[th].client_id)
                          ELSE @]
    /\ UNCHANGED <<now, rl, limiters, client_tiers, last, reset_before, histories, dispatch>>

\* for client_id in clients_to_remove: del self.request_history[client_id]
\* A thread whose client_requests is the deleted deque keeps the deque.
ThreadLine145(th) ==
    /\ threads[th].line = 145
    /\ IF threads[th].clients_to_remove = <<>>
       THEN /\ threads' = [threads EXCEPT ![th] = Idle]
            /\ Returned(Call("cleanup_old_entries", ""))
            /\ UNCHANGED rl
       ELSE LET c == Head(threads[th].clients_to_remove)
            IN  IF c \notin DOMAIN rl.request_history
                THEN /\ threads' = [threads EXCEPT ![th] = Idle]
                     /\ Returned([Call("cleanup_old_entries", "") EXCEPT
                                     !.raised = "KeyError"])
                     /\ UNCHANGED rl
                ELSE /\ rl' = [rl EXCEPT !.request_history =
                                  [k \in DOMAIN @ \ {c} |-> @[k]]]
                     /\ threads' =
                            [o \in Threads |->
                                IF o = th
                                THEN [threads[o] EXCEPT !.clients_to_remove = Tail(@)]
                                ELSE IF /\ threads[o].line \in {52, 53, 56, 61}
                                        /\ threads[o].client_id = c
                                        /\ threads[o].detached = <<>>
                                THEN [threads[o] EXCEPT
                                         !.detached = <<rl.request_history[c]>>]
                                ELSE threads[o]]
                     /\ UNCHANGED <<last, reset_before>>
    /\ UNCHANGED <<now, limiters, client_tiers, histories, dispatch>>

RaceHorizon == 1     \* the clock is read up to this value

RaceCalls == \E c \in Clients : ThreadCall("t1", c)
RaceReadsClock == \E th \in Threads, t \in now .. RaceHorizon : ThreadLine48(th, t)
RaceSweeps == SweepCall("t2")
SweepReadsClock == \E th \in Threads, t \in now .. RaceHorizon : ThreadLine131(th, t)
SweepNextClient == \E th \in Threads : ThreadLine134(th)
SweepTestsOldest == \E th \in Threads : ThreadLine136(th)
SweepPopsOldest == \E th \in Threads : ThreadLine137(th)
SweepMarksEmpty == \E th \in Threads : ThreadLine140(th)
SweepDeletes == \E th \in Threads : ThreadLine145(th)

NextRace ==
    \/ RaceCalls
    \/ RaceReadsClock
    \/ ThreadGetsDeque
    \/ ThreadTestsOldest
    \/ ThreadPopsOldest
    \/ ThreadTestsLimit
    \/ ThreadAppends
    \/ RaceSweeps
    \/ SweepReadsClock
    \/ SweepNextClient
    \/ SweepTestsOldest
    \/ SweepPopsOldest
    \/ SweepMarksEmpty
    \/ SweepDeletes

InitRace ==
    /\ now = 0
    /\ rl = RateLimiter(1, 1)
    /\ limiters = <<>>
    /\ client_tiers = <<>>
    /\ last = NoCall
    /\ reset_before = NoCall
    /\ admitted = [c \in Clients |-> <<>>]
    /\ calls = <<>>
    /\ bare = rl
    /\ promised = [c \in Clients |-> NoPromise]
    /\ threads = [th \in Threads |-> Idle]
    /\ dispatch = [r \in Requests |-> NoRequest]

SpecRace == InitRace /\ [][NextRace]_vars

---------------------------------------------------------------------------
(* SpecMiddleware: requests pass through RateLimitMiddleware.dispatch      *)
(* (src/main.py), whose self.rate_limiter is rl.  dispatch is a coroutine  *)
(* of the event loop: it runs without interruption up to its await, during *)
(* which other requests are dispatched.                                    *)

\* dispatch(request, call_next) is called for a request of a client
DispatchCall(r, c) ==
    /\ dispatch[r].line = 0
    /\ dispatch' = [dispatch EXCEPT ![r] = [NoRequest EXCEPT !.line = 64,
                                                            !.client_ip = c]]
    /\ UNCHANGED <<now, rl, limiters, client_tiers, last, reset_before, histories,
                   threads>>

\* (mutant) a request that is not allowed is passed on all the same
DispatchLine64_passes_all(r, t) ==
    /\ dispatch[r].line = 64
    /\ AllowRequestAt(dispatch[r].client_ip, t)
    /\ dispatch' = [dispatch EXCEPT ![r].allowed = <<last'.ret>>, ![r].line = 70]
    /\ UNCHANGED <<histories, threads>>

\* client_ip = request.client.host
\* if not self.rate_limiter.allow_request(client_ip):
\*     raise HTTPException(status_code=HTTP_429_TOO_MANY_REQUESTS, ...)
DispatchLine64(r, t) ==
    /\ dispatch[r].line = 64
    /\ AllowRequestAt(dispatch[r].client_ip, t)
    /\ dispatch' = [dispatch EXCEPT
                       ![r].allowed = <<last'.ret>>,
                       ![r].line = IF last'.ret THEN 70 ELSE 0,
                       ![r].outcome = IF last'.ret THEN ""
                                      ELSE "HTTPException(429)"]
    /\ UNCHANGED <<histories, threads>>

\* response = await call_next(request)
DispatchLine70(r) ==
    /\ dispatch[r].line = 70
    /\ dispatch' = [dispatch EXCEPT ![r].handled = TRUE, ![r].line = 71]
    /\ UNCHANGED <<now, rl, limiters, client_tiers, last, reset_before, histories,
                   threads>>

\* return response
DispatchLine71(r) ==
    /\ dispatch[r].line = 71
    /\ dispatch' = [dispatch EXCEPT ![r].outcome = "response", ![r].line = 0]
    /\ UNCHANGED <<now, rl, limiters, client_tiers, last, reset_before, histories,
                   threads>>

DispatchReceives == \E r \in Requests, c \in Clients : DispatchCall(r, c)
DispatchAdmits == \E r \in Requests, t \in ClockReads : DispatchLine64(r, t)
DispatchCallsNext == \E r \in Requests : DispatchLine70(r)
DispatchReturns == \E r \in Requests : DispatchLine71(r)

NextMiddleware ==
    \/ DispatchReceives
    \/ DispatchAdmits
    \/ DispatchCallsNext
    \/ DispatchReturns

SpecMiddleware == Init /\ [][NextMiddleware]_vars

---------------------------------------------------------------------------
(* SpecSliding: one client of a limiter of 2 requests per 10 seconds *)

SlidingHorizon == 12    \* the clock is read up to this value
MaxCalls == 4           \* allow_request is called at most this often

SlidingAllowRequest ==
    \E t \in now .. SlidingHorizon :
        /\ Len(calls) < MaxCalls
        /\ AllowRequestAt("c1", t)
        /\ calls' = Append(calls, [time |-> t, ret |-> last'.ret])
        /\ UNCHANGED <<admitted, bare, promised, threads, dispatch>>

InitSliding ==
    /\ now = 0
    /\ rl = RateLimiter(2, 10)
    /\ limiters = <<>>
    /\ client_tiers = <<>>
    /\ last = NoCall
    /\ reset_before = NoCall
    /\ admitted = [c \in Clients |-> <<>>]
    /\ calls = <<>>
    /\ bare = rl
    /\ promised = [c \in Clients |-> NoPromise]
    /\ threads = [th \in Threads |-> Idle]
    /\ dispatch = [r \in Requests |-> NoRequest]

SpecSliding == InitSliding /\ [][SlidingAllowRequest]_vars

---------------------------------------------------------------------------
(* Operations on the AdvancedRateLimiter <<limiters, client_tiers>> *)

Advanced == [limiters |-> limiters, client_tiers |-> client_tiers]

\* a client's deque in the limiter of the tier it is routed to
Stored(c) ==
    LET tier_name == ClientTier(Advanced, c)
    IN  IF tier_name \in DOMAIN limiters THEN Lookup(limiters[tier_name], c)
        ELSE <<>>

AdvancedBecomes(self) ==
    /\ limiters' = self.limiters
    /\ client_tiers' = self.client_tiers

AddTier(tier_name, max_requests, time_window) ==
    /\ AdvancedBecomes(add_tier(Advanced, tier_name, max_requests, time_window))
    /\ Returned([Call("add_tier", "") EXCEPT
                    !.tier = tier_name,
                    !.found = Cardinality({c \in Clients :
                                  /\ ClientTier(Advanced, c) = tier_name
                                  /\ tier_name \in DOMAIN limiters
                                  /\ Len(RecentRequests(Stored(c), now,
                                         limiters[tier_name].time_window))
                                       >= limiters[tier_name].max_requests})])
    /\ UNCHANGED <<now, rl, histories, dispatch, threads>>

SetClientTier(c, tier_name) ==
    LET r == set_client_tier(Advanced, c, tier_name)
    IN  /\ AdvancedBecomes(r.self)
        /\ Returned([Call("set_client_tier", c) EXCEPT
                        !.tier = tier_name,
                        !.raised = r.raised,
                        !.found = IF r.raised = "" /\ ClientTier(Advanced, c) # tier_name
                                  THEN Len(RecentRequests(
                                           Lookup(limiters[tier_name], c), now,
                                           limiters[tier_name].time_window))
                                  ELSE 0])
        /\ UNCHANGED <<now, rl, histories, dispatch, threads>>

AdvancedAllowRequestAt(c, t) ==
    LET r == Advanced_allow_request(Advanced, c, t)
    IN  /\ now' = t
        /\ AdvancedBecomes(r.self)
        /\ Returned([Call("allow_request", c) EXCEPT
                        !.tier = r.tier, !.ret = r.ret, !.raised = r.raised])
        /\ UNCHANGED <<rl, histories, dispatch, threads>>

AdvancedGetClientStatusAt(c, t) ==
    LET r == Advanced_get_client_status(Advanced, c, t)
    IN  /\ now' = t
        /\ AdvancedBecomes(r.self)
        /\ Returned([Call("get_client_status", c) EXCEPT
                        !.tier = r.tier, !.status = r.ret, !.raised = r.raised])
        /\ UNCHANGED <<rl, histories, dispatch, threads>>

---------------------------------------------------------------------------
(* SpecTier: one AdvancedRateLimiter, its methods called one after the     *)
(* other.  allow_request is called for a client while at most MaxStored of *)
(* its timestamps are stored in its tier.  Client c1 is assigned to either *)
(* tier, client c2 to the default tier only.                               *)

TierNames == {"default", "premium"}
TierPolicies == {<<1, 2>>, <<2, 1>>}    \* the (max_requests, time_window) of add_tier
Assignments == {<<"c1", "default">>, <<"c1", "premium">>, <<"c2", "default">>}
TierHorizon == 1                        \* the clock is read up to this value
MaxStored == 1

TierAddTier ==
    \E tier_name \in TierNames, policy \in TierPolicies :
        AddTier(tier_name, policy[1], policy[2])

TierSetClientTier ==
    \E a \in Assignments : SetClientTier(a[1], a[2])

TierAllowRequest ==
    \E c \in Clients, t \in now .. TierHorizon :
        /\ Len(Stored(c)) <= MaxStored
        /\ AdvancedAllowRequestAt(c, t)

TierGetClientStatus ==
    \E c \in Clients, t \in now .. TierHorizon : AdvancedGetClientStatusAt(c, t)

InitTier ==
    /\ now = 0
    /\ rl = RateLimiter(1, 1)
    /\ limiters = AdvancedRateLimiter.limiters
    /\ client_tiers = AdvancedRateLimiter.client_tiers
    /\ last = NoCall
    /\ reset_before = NoCall
    /\ admitted = [c \in Clients |-> <<>>]
    /\ calls = <<>>
    /\ bare = rl
    /\ promised = [c \in Clients |-> NoPromise]
    /\ threads = [th \in Threads |-> Idle]
    /\ dispatch = [r \in Requests |-> NoRequest]

NextTier ==
    \/ TierAddTier
    \/ TierSetClientTier
    \/ TierAllowRequest
    \/ TierGetClientStatus

SpecTier == InitTier /\ [][NextTier]_vars

---------------------------------------------------------------------------
(* SpecDefault: a client without assignment calls an AdvancedRateLimiter   *)
(* whose default tier is created at its first call or registered by        *)
(* add_tier; the clock advances in steps of DefaultStep.                   *)

DefaultStep == 30
DefaultHorizon == 90

DefaultClockReads == {t \in {now, now + DefaultStep} : t <= DefaultHorizon}

DefaultAddTier ==
    \E policy \in TierPolicies : AddTier("default", policy[1], policy[2])

DefaultAllowRequest ==
    \E t \in DefaultClockReads : AdvancedAllowRequestAt("c1", t)

DefaultGetClientStatus ==
    \E t \in DefaultClockReads : AdvancedGetClientStatusAt("c1", t)

NextDefault ==
    \/ DefaultAddTier
    \/ DefaultAllowRequest
    \/ DefaultGetClientStatus

SpecDefault == InitTier /\ [][NextDefault]_vars

---------------------------------------------------------------------------
(* SpecConfig: limiters constructed with any integer arguments, directly   *)
(* and through add_tier, and then used.  __init__ stores what it is given. *)

Arguments == {-1, 0, 1}     \* the max_requests and time_window passed

ConfigAddTier ==
    \E tier_name \in TierNames, max_requests \in Arguments, time_window \in Arguments :
        AddTier(tier_name, max_requests, time_window)

InitConfig ==
    /\ now = 0
    /\ rl \in {RateLimiter(m, w) : m \in Arguments, w \in Arguments}
    /\ limiters = AdvancedRateLimiter.limiters
    /\ client_tiers = AdvancedRateLimiter.client_tiers
    /\ last = NoCall
    /\ reset_before = NoCall
    /\ admitted = [c \in Clients |-> <<>>]
    /\ calls = <<>>
    /\ bare = rl
    /\ promised = [c \in Clients |-> NoPromise]
    /\ threads = [th \in Threads |-> Idle]
    /\ dispatch = [r \in Requests |-> NoRequest]

ConfigAllowRequest ==
    \E t \in now .. TierHorizon :
        AllowRequestAt("c1", t) /\ UNCHANGED <<histories, dispatch, threads>>

ConfigTierAllowRequest ==
    \E t \in now .. TierHorizon :
        /\ Len(Stored("c1")) <= MaxStored
        /\ AdvancedAllowRequestAt("c1", t)

NextConfig ==
    \/ ConfigAddTier
    \/ ConfigAllowRequest
    \/ ConfigTierAllowRequest

SpecConfig == InitConfig /\ [][NextConfig]_vars

---------------------------------------------------------------------------
(* SpecQuota: rl is given allow_request calls with status queries, stats   *)
(* and sweeps between them, while the RateLimiter bare, constructed with   *)
(* the same arguments, is given the same allow_request calls at the same   *)
(* times and no other call.                                                *)

\* rl.allow_request(c) and bare.allow_request(c), the clock reading t in
\* both; found is the number of c's timestamps that the calls made of rl
\* alone have removed from its deque beforehand
QuotaAllowRequest ==
    \E c \in Clients, t \in ClockReads :
        LET r == allow_request(rl, c, t)
        IN  /\ now' = t
            /\ rl' = r.self
            /\ bare' = allow_request(bare, c, t).self
            /\ Returned([Call("allow_request", c) EXCEPT
                            !.ret = r.ret,
                            !.found = Len(Lookup(bare, c)) - Len(Lookup(rl, c))])
            /\ UNCHANGED <<limiters, client_tiers, admitted, calls, promised,
                           threads, dispatch>>

NextQuota ==
    \/ QuotaAllowRequest
    \/ GetClientStatus
    \/ GetAllClientsStatus
    \/ GetStats
    \/ CleanupOldEntries

SpecQuota == InitLifecycle /\ [][NextQuota]_vars

---------------------------------------------------------------------------
(* SpecReset: allow_request, get_client_status and cleanup_old_entries     *)
(* called one after the other, with the reset_time that get_client_status  *)
(* reports to a limited client kept until that client is admitted again.   *)

\* get_client_status(c); a status with is_limited adds its reset_time to
\* what c was told
ResetGetClientStatus ==
    \E c \in Clients, t \in ClockReads :
        /\ GetClientStatusAt(c, t)
        /\ promised' = [promised EXCEPT ![c].reset_time =
                           IF last'.status[1].is_limited
                           THEN @ \cup last'.status[1].reset_time
                           ELSE @]
        /\ UNCHANGED <<admitted, calls, bare, threads, dispatch>>

\* allow_request(c); found is the number of reset times c was told that
\* have passed at the call, again says that a request of c was rejected
\* since it was told one; an admission ends what c was told
ResetAllowRequest ==
    \E c \in Clients, t \in ClockReads :
        LET r == allow_request(rl, c, t)
        IN  /\ now' = t
            /\ rl' = r.self
            /\ Returned([Call("allow_request", c) EXCEPT
                            !.ret = r.ret,
                            !.found = Cardinality({x \in promised[c].reset_time :
                                                       x <= t}),
                            !.again = promised[c].rejected])
            /\ promised' = [promised EXCEPT ![c] =
                               IF r.ret THEN NoPromise
                               ELSE [@ EXCEPT !.rejected = (@ \/
                                        promised[c].reset_time # {})]]
            /\ UNCHANGED <<limiters, client_tiers, admitted, calls, bare,
                           threads, dispatch>>

NextReset ==
    \/ ResetAllowRequest
    \/ ResetGetClientStatus
    \/ CleanupOldEntries

SpecReset == Init /\ [][NextReset]_vars

---------------------------------------------------------------------------
(* Properties *)

\* the timestamps of a deque that are inside the window that ends at t
InWindow(requests, t, time_window) ==
    SelectSeq(requests, LAMBDA r : r > t - time_window)

\* C1 (bounded admission): with max_requests > 0, time_window > 0 and a
\* clock that does not move backward, for every client and every interval
\* [s, s + time_window) of time_window consecutive seconds, at most
\* max_requests allow_request calls of that client made in the interval
\* returned true.
BoundedAdmission ==
    \A c \in Clients : \A s \in 0 .. MaxTime :
        Cardinality({i \in 1 .. Len(admitted[c]) :
                        /\ s <= admitted[c][i]
                        /\ admitted[c][i] < s + rl.time_window})
            <= rl.max_requests

\* C1 witness: a client that used its whole quota in the current window is
\* turned away.
BoundedAdmissionWitness ==
    /\ last.op = "allow_request"
    /\ ~last.ret
    /\ Len(InWindow(admitted[last.client], now, rl.time_window)) = rl.max_requests
    /\ rl.max_requests = MaxRequests

\* C2 (admission rule): allow_request(c) at time now removes every
\* timestamp <= now - time_window of c; if max_requests or more remain it
\* returns false and c's sequence is the trimmed one, otherwise it returns
\* true and c's sequence is the trimmed one with now appended.
AdmissionRule ==
    [][last'.op = "allow_request" =>
        LET c == last'.client
            trimmed == InWindow(Lookup(rl, c), now', rl.time_window)
        IN  /\ c \in DOMAIN rl'.request_history
            /\ IF Len(trimmed) >= rl.max_requests
               THEN ~last'.ret /\ rl'.request_history[c] = trimmed
               ELSE last'.ret /\ rl'.request_history[c] = Append(trimmed, now')
      ]_vars

\* C2 witness: a request is rejected at a later time than those recorded,
\* none of which is the first of the run.
AdmissionRuleWitness ==
    /\ last.op = "allow_request"
    /\ ~last.ret
    /\ LET q == rl.request_history[last.client]
       IN  /\ Len(q) = rl.max_requests
           /\ q[1] > 0
           /\ now \notin {q[i] : i \in 1 .. Len(q)}

\* C3 (sliding window): allow_request returns true exactly when fewer than
\* max_requests of the client's admitted requests have a timestamp inside
\* the window that ends now, whenever the other requests were made; with
\* 2 requests per 10 seconds, calls at 0, 5, 9 and 11 return true, true,
\* false and true.
SlidingWindow ==
    /\ [][last'.op = "allow_request" =>
            last'.ret =
                (Cardinality({i \in 1 .. Len(calls) :
                                 /\ calls[i].ret
                                 /\ calls[i].time > now' - rl.time_window})
                    < rl.max_requests)
         ]_vars
    /\ [](\A n \in 1 .. Min(Len(calls), 4) :
            [i \in 1 .. n |-> calls[i].time] = SubSeq(<<0, 5, 9, 11>>, 1, n)
                => [i \in 1 .. n |-> calls[i].ret]
                       = SubSeq(<<TRUE, TRUE, FALSE, TRUE>>, 1, n))

\* C3 witness: the four calls of the example were made.
SlidingWindowWitness ==
    /\ Len(calls) >= 4
    /\ [i \in 1 .. 4 |-> calls[i].time] = <<0, 5, 9, 11>>
    /\ last.ret

\* C5 (reset): reset_client(c) returns true exactly when c has an entry in
\* the tracking map beforehand; afterwards c has no entry; and the
\* allow_request(c) that follows it immediately returns true.
ResetCorrectness ==
    [][/\ last'.op = "reset_client" =>
            /\ last'.ret = (last'.client \in DOMAIN rl.request_history)
            /\ last'.client \notin DOMAIN rl'.request_history
       /\ (last.op = "reset_client" /\ last'.op = "allow_request"
              /\ last'.client = last.client) => last'.ret
      ]_vars

\* C5 witness: a client at its limit is reset and then admitted.
ResetCorrectnessWitness ==
    /\ last.op = "allow_request"
    /\ last.ret
    /\ reset_before.op = "reset_client"
    /\ reset_before.client = last.client
    /\ reset_before.ret
    /\ reset_before.found = rl.max_requests

\* C9 (cleanup convergence): when the clock read by cleanup_old_entries is
\* more than time_window past every recorded timestamp, the call leaves the
\* tracking map empty and get_stats reports total_clients = 0.
CleanupConvergence ==
    [][(/\ last'.op = "cleanup_old_entries"
        /\ \A c \in DOMAIN rl.request_history :
              \A i \in 1 .. Len(rl.request_history[c]) :
                  rl.request_history[c][i] + rl.time_window < now')
        => /\ DOMAIN rl'.request_history = {}
           /\ get_stats(rl', now').total_clients = 0
      ]_vars

\* C9 witness: a sweep that found timestamps of both clients leaves nothing.
CleanupConvergenceWitness ==
    /\ last.op = "cleanup_old_entries"
    /\ last.found > rl.max_requests
    /\ DOMAIN rl.request_history = {}

\* C10 (idempotent status read): a get_client_status(c) that follows a
\* get_client_status(c) at the same clock value returns the same
\* requests_used and requests_remaining and leaves the limiter as it was.
IdempotentStatus ==
    [][(/\ last.op = "get_client_status"
        /\ last'.op = "get_client_status"
        /\ last'.client = last.client
        /\ now' = now)
        => /\ last'.status[1].requests_used = last.status[1].requests_used
           /\ last'.status[1].requests_remaining = last.status[1].requests_remaining
           /\ rl' = rl
      ]_vars

\* C10 witness: the status of a client with requests in its window was read
\* twice in a row at the same clock value.
IdempotentStatusWitness ==
    /\ last.op = "get_client_status"
    /\ last.again
    /\ last.status[1].requests_used > 0

\* the limiter that governs a client: that of the tier it is routed to, a
\* new one of 60 requests per 60 seconds while no default tier is registered
Governing(self, c) ==
    LET tier_name == ClientTier(self, c)
    IN  IF tier_name \in DOMAIN self.limiters THEN self.limiters[tier_name]
        ELSE RateLimiter(DefaultMaxRequests, DefaultTimeWindow)

\* what a client sees of the limiter: the result of its next allow_request
\* and get_client_status at each later clock value
ClientView(self, c, horizon) ==
    [t \in now' .. horizon |->
        <<Advanced_allow_request(self, c, t).ret,
          Advanced_get_client_status(self, c, t).ret>>]

\* C6 (tier isolation): for two clients routed to different tiers, an
\* allow_request or get_client_status of one is decided by its own tier's
\* (max_requests, time_window) and its own timestamps there, and changes
\* no result the other client gets afterwards.
TierIsolation ==
    [][\A a, b \in Clients :
        (/\ last'.op \in {"allow_request", "get_client_status"}
         /\ last'.client = a
         /\ ClientTier(Advanced, a) # ClientTier(Advanced, b))
        => LET own == Governing(Advanced, a)
               used == Len(InWindow(Lookup(own, a), now', own.time_window))
           IN  /\ last'.op = "allow_request" =>
                      last'.ret = (used < own.max_requests)
               /\ last'.op = "get_client_status" =>
                      /\ last'.status[1].requests_used = used
                      /\ last'.status[1].max_requests = own.max_requests
                      /\ last'.status[1].time_window = own.time_window
               /\ ClientView(Advanced', b, TierHorizon)
                      = ClientView(Advanced, b, TierHorizon)
      ]_vars

\* C6 witness: c1 and c2 are assigned to tiers of different policies, c1 has
\* just been turned away by its tier and c2 still has quota in its own.
TierIsolationWitness ==
    /\ DOMAIN client_tiers = Clients
    /\ client_tiers["c1"] # client_tiers["c2"]
    /\ Governing(Advanced, "c1").max_requests # Governing(Advanced, "c2").max_requests
    /\ Governing(Advanced, "c1").time_window # Governing(Advanced, "c2").time_window
    /\ last.op = "allow_request" /\ last.client = "c1" /\ ~last.ret
    /\ Stored("c2") # <<>>
    /\ Advanced_allow_request(Advanced, "c2", now).ret

DefaultTierFallback ==
    [][(/\ last'.op \in {"allow_request", "get_client_status"}
        /\ last'.client \notin DOMAIN client_tiers)
        => LET c == last'.client
               own == Governing(Advanced, c)
               used == Len(InWindow(Lookup(own, c), now', own.time_window))
           IN  /\ last'.tier = "default"
               /\ last'.raised = ""
               /\ "default" \in DOMAIN limiters'
               /\ limiters'["default"].max_requests = own.max_requests
               /\ limiters'["default"].time_window = own.time_window
               /\ "default" \notin DOMAIN limiters =>
                      /\ own.max_requests = 60
                      /\ own.time_window = 60
               /\ "default" \in DOMAIN limiters => own = limiters["default"]
               /\ LET kept == InWindow(Lookup(own, c), now', own.time_window)
                  IN  SubSeq(Lookup(limiters'["default"], c), 1, Len(kept)) = kept
               /\ last'.op = "allow_request" =>
                      last'.ret = (used < own.max_requests)
               /\ last'.op = "get_client_status" =>
                      /\ last'.status[1].tier = "default"
                      /\ last'.status[1].requests_used = used
                      /\ last'.status[1].requests_remaining = own.max_requests - used
      ]_vars

\* C8 witness: under the default tier created at its first call, the client
\* made 60 admitted requests inside 60 seconds and the 61st is rejected.
DefaultTierFallbackWitness ==
    /\ last.op = "allow_request"
    /\ ~last.ret
    /\ client_tiers = <<>>
    /\ limiters["default"].max_requests = 60
    /\ limiters["default"].time_window = 60
    /\ LET q == limiters["default"].request_history[last.client]
       IN  Len(q) = 60 /\ q[1] > now - 60 /\ q[1] < q[60]

\* C4 (atomic admission per client): whatever the interleaving of the
\* callers of allow_request for one client, no max_requests + 1 of its
\* admitted requests have timestamps less than time_window apart.
AtomicAdmission ==
    \A c \in Clients :
        ~ \E S \in SUBSET (1 .. Len(admitted[c])) :
            /\ Cardinality(S) = rl.max_requests + 1
            /\ \A i, j \in S : admitted[c][i] - admitted[c][j] < rl.time_window

\* C11 (constructor validation): constructing a limiter, directly or
\* through add_tier, with max_requests <= 0 or time_window <= 0 yields no
\* limiter: no limiter with a non-positive max_requests or time_window
\* exists in a reachable state.
ConstructorValidation ==
    /\ rl.max_requests > 0
    /\ rl.time_window > 0
    /\ \A tier_name \in DOMAIN limiters :
          /\ limiters[tier_name].max_requests > 0
          /\ limiters[tier_name].time_window > 0

\* C12 (allow_request never raises): whatever public operations were called
\* before, one after the other, AdvancedRateLimiter.allow_request, and the
\* RateLimiter.allow_request it returns the result of, end with a boolean
\* returned for a client seen or unseen, assigned or unassigned; no
\* exception is raised, a rejection is the value false.
AllowRequestNeverRaises ==
    last.op = "allow_request" =>
        /\ last.raised = ""
        /\ last.ret \in BOOLEAN
        /\ last.tier \in DOMAIN limiters
        /\ last.client \in DOMAIN limiters[last.tier].request_history

\* C12 witness: a client assigned to a tier other than the default one is
\* turned away by the value false.
AllowRequestNeverRaisesWitness ==
    /\ last.op = "allow_request"
    /\ last.raised = ""
    /\ ~last.ret
    /\ last.client \in DOMAIN client_tiers
    /\ last.tier # "default"
    /\ "default" \notin DOMAIN limiters

\* C13 (status fields): get_client_status(c) at time now returns
\* requests_used = the number of c's timestamps > now - time_window,
\* requests_remaining = max(0, max_requests - requests_used), is_limited =
\* (requests_used >= max_requests) and reset_time = the oldest of those
\* timestamps + time_window, or none when there is none; is_limited is true
\* exactly when an allow_request(c) made next at the same time returns false.
StatusFields ==
    [][last'.op = "get_client_status" =>
        LET c == last'.client
            status == last'.status[1]
            remaining == InWindow(Lookup(rl, c), now', rl.time_window)
            used == Len(remaining)
        IN  /\ status.requests_used = used
            /\ status.requests_remaining =
                   (IF rl.max_requests - used > 0 THEN rl.max_requests - used ELSE 0)
            /\ status.is_limited = (used >= rl.max_requests)
            /\ status.reset_time =
                   (IF used = 0 THEN {} ELSE {remaining[1] + rl.time_window})
            /\ \A i \in 1 .. used : remaining[1] <= remaining[i]
            /\ status.is_limited = ~allow_request(rl', c, now').ret
      ]_vars

\* C13 witness: the status of a client at its limit is read, the oldest of
\* its counted requests made after time 0.
StatusFieldsWitness ==
    /\ last.op = "get_client_status"
    /\ last.status[1].is_limited
    /\ last.status[1].requests_used = MaxRequests
    /\ last.status[1].requests_remaining = 0
    /\ \E t \in 1 .. MaxTime : last.status[1].reset_time = {t + rl.time_window}

\* C14 (tier replacement resets enforcement): add_tier(name, ...) on a name
\* already registered installs a limiter that tracks no client, so every
\* client routed to that tier has requests_used = 0 immediately afterwards
\* and is admitted again even if it was at its limit; the tiers of other
\* names and the client-to-tier mapping are unchanged.
TierReplacement ==
    [][(last'.op = "add_tier" /\ last'.tier \in DOMAIN limiters)
        => /\ DOMAIN limiters'[last'.tier].request_history = {}
           /\ \A c \in Clients :
                 ClientTier(Advanced, c) = last'.tier =>
                     /\ Advanced_get_client_status(Advanced', c, now').ret[1]
                            .requests_used = 0
                     /\ Advanced_allow_request(Advanced', c, now').ret
           /\ DOMAIN limiters' = DOMAIN limiters
           /\ \A tier_name \in DOMAIN limiters \ {last'.tier} :
                 limiters'[tier_name] = limiters[tier_name]
           /\ client_tiers' = client_tiers
      ]_vars

\* C14 witness: a tier is replaced while a client routed to it is at its
\* limit there, and a client routed to the other tier stays at its limit.
TierReplacementWitness ==
    /\ last.op = "add_tier"
    /\ last.found > 0
    /\ DOMAIN limiters = TierNames
    /\ \E c \in Clients :
          /\ ClientTier(Advanced, c) # last.tier
          /\ ~Advanced_allow_request(Advanced, c, now).ret

\* C15 (re-tiering does not migrate history): a set_client_tier(c, B) that
\* succeeds overwrites c's assignment and changes nothing else: the
\* assignments of the other clients and every limiter's timestamps are as
\* before, so the requests_used that c reads under B immediately afterwards
\* is the number of timestamps c already had in B's limiter inside B's
\* window, whatever it had recorded under its previous tier.
RetieringKeepsHistory ==
    [][(last'.op = "set_client_tier" /\ last'.raised = "")
        => LET c == last'.client
               B == last'.tier
               used == Len(InWindow(Lookup(limiters[B], c), now,
                                    limiters[B].time_window))
           IN  /\ DOMAIN client_tiers' = DOMAIN client_tiers \cup {c}
               /\ client_tiers'[c] = B
               /\ \A d \in DOMAIN client_tiers \ {c} :
                     client_tiers'[d] = client_tiers[d]
               /\ limiters' = limiters
               /\ Advanced_get_client_status(Advanced', c, now').ret[1]
                      .requests_used = used
      ]_vars

\* C15 witness: a client at its limit in the tier it was assigned to is
\* moved to the default tier, where it has no timestamp.
RetieringKeepsHistoryWitness ==
    /\ last.op = "set_client_tier"
    /\ last.raised = ""
    /\ last.tier = "default"
    /\ "premium" \in DOMAIN limiters
    /\ Len(Lookup(limiters["premium"], last.client)) >= limiters["premium"].max_requests
    /\ Lookup(limiters["default"], last.client) = <<>>

\* C16 (cleanup does not race with admission): whatever the interleaving of
\* cleanup_old_entries with a call of allow_request on the same limiter,
\* the timestamp of every admitted request that is still inside the window
\* is in the client's entry (none is lost with an entry that cleanup
\* removes), and cleanup_old_entries does not end with an exception.
CleanupRaceFree ==
    /\ last.op = "cleanup_old_entries" => last.raised = ""
    /\ \A c \in Clients : \A i \in 1 .. Len(admitted[c]) :
          admitted[c][i] > now - rl.time_window
              => \E j \in 1 .. Len(Lookup(rl, c)) : Lookup(rl, c)[j] = admitted[c][i]

CleanupExact ==
    [][last'.op = "cleanup_old_entries" =>
        LET before == rl.request_history
            after == rl'.request_history
        IN  /\ DOMAIN after =
                   {c \in DOMAIN before :
                       \E i \in 1 .. Len(before[c]) :
                           before[c][i] > now' - rl.time_window}
            /\ \A c \in DOMAIN after :
                   after[c] = InWindow(before[c], now', rl.time_window)
            /\ rl'.max_requests = rl.max_requests
            /\ rl'.time_window = rl.time_window
      ]_vars

\* C18 witness: a sweep removed two timestamps or more and a client with a
\* shortened sequence or another client is still tracked.
CleanupExactWitness ==
    /\ last.op = "cleanup_old_entries"
    /\ DOMAIN rl.request_history # {}
    /\ last.found >= 2 + SumLen(rl.request_history, DOMAIN rl.request_history)

\* C19 (client lifecycle): a call of allow_request or get_client_status
\* leaves the client with an entry in the tracking map, the first call of a
\* client too, an allow_request that is rejected too and a status query
\* that records nothing too; an entry leaves the map only by reset_client
\* for that client or by cleanup_old_entries finding no timestamp of it
\* inside the window; allow_request, get_client_status,
\* get_all_clients_status and get_stats remove no entry.
ClientLifecycle ==
    [][\A c \in Clients :
        /\ (last'.op \in {"allow_request", "get_client_status"} /\ last'.client = c)
               => c \in DOMAIN rl'.request_history
        /\ (c \in DOMAIN rl.request_history /\ c \notin DOMAIN rl'.request_history)
               => \/ last'.op = "reset_client" /\ last'.client = c
                  \/ /\ last'.op = "cleanup_old_entries"
                     /\ InWindow(rl.request_history[c], now', rl.time_window) = <<>>
        /\ last'.op \in {"allow_request", "get_client_status",
                         "get_all_clients_status", "get_stats"}
               => DOMAIN rl.request_history \subseteq DOMAIN rl'.request_history
      ]_vars

\* C19 witness: the first allow_request of a client is rejected and leaves
\* it an empty entry, while the other client has none.
ClientLifecycleWitness ==
    /\ last.op = "allow_request"
    /\ ~last.ret
    /\ DOMAIN rl.request_history = {last.client}
    /\ rl.request_history[last.client] = <<>>

\* C20 (sequence invariant): with a clock that does not move backward, the
\* timestamp sequence of every client is sorted ascending in every
\* reachable state, and immediately after allow_request, get_client_status
\* or cleanup_old_entries at time now every timestamp left in a sequence
\* that the call trimmed is > now - time_window.
SequenceInvariant ==
    /\ [](\A c \in DOMAIN rl.request_history :
            \A i, j \in 1 .. Len(rl.request_history[c]) :
                i < j => rl.request_history[c][i] <= rl.request_history[c][j])
    /\ [][\A c \in DOMAIN rl'.request_history :
            (\/ last'.op \in {"allow_request", "get_client_status"} /\ last'.client = c
             \/ last'.op = "cleanup_old_entries")
                => \A i \in 1 .. Len(rl'.request_history[c]) :
                       rl'.request_history[c][i] > now' - rl.time_window
         ]_vars

\* C20 witness: a request is admitted into a full sequence of distinct
\* timestamps whose oldest is the oldest the window still holds.
SequenceInvariantWitness ==
    /\ last.op = "allow_request"
    /\ last.ret
    /\ LET q == rl.request_history[last.client]
       IN  /\ Len(q) = MaxRequests
           /\ q[1] < q[Len(q)]
           /\ q[1] = now - rl.time_window + 1
           /\ q[1] > 0

\* C21 (get_stats is a snapshot that trims nothing): get_stats leaves every
\* client's sequence and the set of tracked clients as they were;
\* total_clients and total_requests_tracked count every stored entry and
\* timestamp, the stale ones too, active_clients counts the clients with a
\* timestamp > now - time_window and limited_clients those of them with at
\* least max_requests such timestamps, so that
\* limited_clients <= active_clients <= total_clients.
StatsSnapshot ==
    [][last'.op = "get_stats" =>
        LET stats == last'.stats[1]
            h == rl.request_history
            fresh(c) == {i \in 1 .. Len(h[c]) : h[c][i] > now' - rl.time_window}
        IN  /\ rl' = rl
            /\ stats.total_clients = Cardinality(DOMAIN h)
            /\ stats.total_requests_tracked =
                   Cardinality(UNION {{<<c, i>> : i \in 1 .. Len(h[c])} :
                                          c \in DOMAIN h})
            /\ stats.active_clients = Cardinality({c \in DOMAIN h : fresh(c) # {}})
            /\ stats.limited_clients =
                   Cardinality({c \in DOMAIN h :
                       fresh(c) # {} /\ Cardinality(fresh(c)) >= rl.max_requests})
            /\ stats.limited_clients <= stats.active_clients
            /\ stats.active_clients <= stats.total_clients
      ]_vars

\* C21 witness: the statistics are read while one client is at its limit
\* and the other has only stale timestamps stored.
StatsSnapshotWitness ==
    /\ last.op = "get_stats"
    /\ last.stats[1].total_clients = 2
    /\ last.stats[1].active_clients = 1
    /\ last.stats[1].limited_clients = 1
    /\ last.stats[1].total_requests_tracked > rl.max_requests
    /\ \A c \in DOMAIN rl.request_history : rl.request_history[c] # <<>>

\* C22 as claimed (a re-tiered client loses its history in the old tier):
\* once a client is moved from a tier to another one, the requests it made
\* under the tier it left count against it nowhere, not under the new tier
\* and not under the old one when it is assigned back to it before the
\* window has elapsed: right after every change of tier the client's
\* requests_used is 0.
RetieringLosesHistory ==
    [][(/\ last'.op = "set_client_tier"
        /\ last'.raised = ""
        /\ ClientTier(Advanced, last'.client) # last'.tier)
        => Advanced_get_client_status(Advanced', last'.client, now').ret[1]
               .requests_used = 0
      ]_vars

\* C22 as amended: the requests a client made under tier A do not count
\* under the tier B it is moved to, but they stay in A's limiter: right
\* after the move the client's requests_used is the number of timestamps
\* it had left in B's limiter inside B's window, its sequence in A is as it
\* was, and assigned back to A at once it is charged with the timestamps of
\* that sequence inside A's window again.
RetieringLeavesHistory ==
    [][(/\ last'.op = "set_client_tier"
        /\ last'.raised = ""
        /\ ClientTier(Advanced, last'.client) # last'.tier
        /\ ClientTier(Advanced, last'.client) \in DOMAIN limiters)
        => LET c == last'.client
               A == ClientTier(Advanced, c)
               B == last'.tier
               back == set_client_tier(Advanced', c, A).self
           IN  /\ Advanced_get_client_status(Advanced', c, now').ret[1].requests_used
                      = Len(InWindow(Lookup(limiters[B], c), now',
                                     limiters[B].time_window))
               /\ A \in DOMAIN limiters'
               /\ c \in DOMAIN limiters[A].request_history =>
                      /\ c \in DOMAIN limiters'[A].request_history
                      /\ limiters'[A].request_history[c]
                             = limiters[A].request_history[c]
               /\ Advanced_get_client_status(back, c, now').ret[1].requests_used
                      = Len(InWindow(Lookup(limiters[A], c), now',
                                     limiters[A].time_window))
      ]_vars

\* C22 witness: a client that made requests under a tier and was moved away
\* is moved back to it inside the window, and is at its limit there.
RetieringLeavesHistoryWitness ==
    /\ last.op = "set_client_tier"
    /\ last.raised = ""
    /\ last.found > 0
    /\ last.found >= limiters[last.tier].max_requests
    /\ \E tier_name \in DOMAIN limiters \ {last.tier} :
          Lookup(limiters[tier_name], last.client) # <<>>

\* C23 (bounded per-client log): for a limiter of max_requests >= 0 whose
\* methods are called one after the other, the stored timestamp sequence
\* of every client has at most max_requests elements in every reachable
\* state, and requests_used + requests_remaining = max_requests in every
\* status returned.
BoundedLog ==
    /\ \A c \in DOMAIN rl.request_history :
          Len(rl.request_history[c]) <= rl.max_requests
    /\ last.op = "get_client_status" =>
          last.status[1].requests_used + last.status[1].requests_remaining
              = rl.max_requests
    /\ last.op = "get_all_clients_status" =>
          \A c \in DOMAIN last.all :
              last.all[c].requests_used + last.all[c].requests_remaining
                  = rl.max_requests

\* C23 witness: the statuses of all clients are read while both are
\* tracked, one with a full sequence and nothing remaining, one with room
\* left.
BoundedLogWitness ==
    /\ last.op = "get_all_clients_status"
    /\ DOMAIN last.all = Clients
    /\ \E c \in Clients : last.all[c].requests_remaining = 0
    /\ \E c \in Clients : last.all[c].requests_remaining > 0
    /\ \E c \in Clients : Len(rl.request_history[c]) = MaxRequests


\* C24 (tier registry): after any sequence of add_tier, set_client_tier,
\* allow_request and get_client_status calls every tier name stored in
\* client_tiers is a key of limiters; an allow_request or get_client_status
\* call resolves a name that is a key of limiters when it looks the limiter
\* up and raises nothing, and a name it finds missing beforehand is
\* "default", of a client without an assignment, which the call creates.
TierRegistry ==
    [][/\ \A c \in DOMAIN client_tiers' : client_tiers'[c] \in DOMAIN limiters'
       /\ DOMAIN limiters \subseteq DOMAIN limiters'
       /\ last'.op \in {"allow_request", "get_client_status"} =>
             /\ last'.raised = ""
             /\ last'.tier = ClientTier(Advanced, last'.client)
             /\ last'.tier \in DOMAIN limiters'
             /\ last'.tier \notin DOMAIN limiters =>
                   /\ last'.tier = "default"
                   /\ last'.client \notin DOMAIN client_tiers
                   /\ DOMAIN limiters' = DOMAIN limiters \cup {"default"}
                   /\ limiters'["default"].max_requests = DefaultMaxRequests
                   /\ limiters'["default"].time_window = DefaultTimeWindow]_vars

\* C24 witness: while one client is assigned to a tier other than the
\* default one, the status of a client without an assignment is read and
\* the default tier it resolves to is there with the limits of its creation.
TierRegistryWitness ==
    /\ last.op = "get_client_status"
    /\ last.raised = ""
    /\ last.client \notin DOMAIN client_tiers
    /\ last.tier = "default"
    /\ \E c \in DOMAIN client_tiers : client_tiers[c] # "default"
    /\ "default" \in DOMAIN limiters
    /\ limiters["default"].max_requests = DefaultMaxRequests
    /\ DOMAIN limiters["default"].request_history = {last.client}


\* C25 (queries and sweeps consume no quota): every allow_request call of
\* rl, between whose calls get_client_status, get_all_clients_status,
\* get_stats and cleanup_old_entries calls are made at any points and in any
\* number, returns the boolean that the same call returns from the limiter
\* bare, which is given the same allow_request calls at the same times and
\* none of the other calls.
QueriesConsumeNoQuota ==
    [][last'.op = "allow_request" =>
          last'.ret = allow_request(bare, last'.client, now').ret]_vars

\* C25 witness: a client is admitted after status queries or sweeps have
\* removed timestamps of its from rl that bare still stores, and another
\* client's key, deleted from rl by a sweep, is still a key of bare.
QueriesConsumeNoQuotaWitness ==
    /\ last.op = "allow_request"
    /\ last.found > 0
    /\ last.ret
    /\ \E c \in DOMAIN bare.request_history : c \notin DOMAIN rl.request_history


\* C26 (no lockout past reset_time): once get_client_status(c) has reported
\* is_limited with reset_time r, max_requests being positive, and as long as
\* no request of c has been admitted since, allow_request(c) returns true at
\* every clock reading >= r, whatever status queries and sweeps were made in
\* between and however many requests of c were rejected before r; a rejected request leaves the
\* reset_time that a status query reports at r, so every limited status of
\* that stretch reports the same r.
NoLockoutPastReset ==
    /\ [](\A c \in Clients : \A r \in promised[c].reset_time :
            \A t \in Max(now, r) .. MaxTime + MaxWindow :
                allow_request(rl, c, t).ret)
    /\ [][last'.op = "allow_request" =>
            /\ last'.found > 0 => last'.ret
            /\ (~last'.ret /\ promised[last'.client].reset_time # {}) =>
                  get_client_status(rl', last'.client, now').ret.reset_time
                      = promised[last'.client].reset_time]_vars

\* C26 witness: a client that was told a reset_time while limited, and had a
\* request rejected after that, is admitted at a clock reading that is not
\* before that reset_time, which fills its deque of more than one timestamp
\* again.
NoLockoutPastResetWitness ==
    /\ last.op = "allow_request"
    /\ last.ret
    /\ last.found > 0
    /\ last.again
    /\ Len(Lookup(rl, last.client)) = rl.max_requests
    /\ rl.max_requests > 1

=============================================================================
